---- MODULE Spec2Model ----
(***************************************************************************)
(* Streaming anomaly detection and rule-based recommendation agent of the  *)
(* agriculture monitoring backend (agriculture_app).                       *)
(*                                                                         *)
(* Numbers: sensor values are integers in sensor units; oracle scores and  *)
(* confidences are integers in hundredths (score -65 is -0.65, confidence  *)
(* 60 is 0.60); time is counted in hours.                                  *)
(***************************************************************************)
EXTENDS Integers, Sequences, FiniteSets, TLC

VARIABLES
    now,            \* wall clock read by auto_now_add
    artifacts,      \* sensor types whose model_<sensor>.pkl exists and loads
    plot_contexts,  \* MLAnomalyDetector.plot_contexts of the per-sensor detectors
    readings,       \* table sensor_readings, in insertion order
    anomalies,      \* table anomaly_events, in insertion order (id = index)
    recommendations,\* table agent_recommendations, in insertion order (id = index)
    log,            \* history of perform_create calls (observation only)
    pc,             \* position of each trigger inside generate_recommendation
    local,          \* local variables of each trigger
    decision        \* result of the latest apply_rules evaluation

vars == <<now, artifacts, plot_contexts, readings, anomalies, recommendations,
          log, pc, local, decision>>

----------------------------------------------------------------------------
(* Bounds of the model *)

MaxReadings == 2
MaxTime == 2
MaxHistory == 2
MaxOthers == 1
FeatureWindow == 2

Plots == {1}
SensorTypes == {"MOISTURE", "TEMPERATURE", "HUMIDITY"}
AnomalyTypes == {"HIGH_MOISTURE", "LOW_MOISTURE", "HIGH_TEMPERATURE",
                 "LOW_TEMPERATURE", "HIGH_HUMIDITY", "LOW_HUMIDITY"}
SeverityLevels == {"HIGH", "MEDIUM", "LOW"}
Keys == Plots \X SensorTypes
(* Installations tried: every model file present, or one of them missing *)
ArtifactSets == {SensorTypes, SensorTypes \ {"HUMIDITY"}}
None == "None"

(* Scores the oracle may return (hundredths) and the outcome of a failing
   scaler / model call. *)
Scores == {-120, -80, -65, -30, 0, 5, 10, 20}
Throws == [raised |-> TRUE, score |-> 0]
Returns(score) == [raised |-> FALSE, score |-> score]
Outcomes == {Returns(s) : s \in Scores} \cup {Throws}

(* Calibration saved by the training script: quantiles of the training
   decision_function at start_q and stop_q.  The forest's offset is the
   train_cont quantile of the same scores and start_q >= train_cont in every
   SENSOR_CFG entry, so raw_start >= 0 and raw_stop >= raw_start. *)
raw_start == 10
raw_stop == 20
(* SENSOR_CFG[...]["k"], saved as min_consecutive *)
min_consecutive(sensor_type) == IF sensor_type = "MOISTURE" THEN 4 ELSE 3

(* SHORT_TIME_WINDOW = timedelta(hours=1), in hours *)
SHORT_TIME_WINDOW == 1
(* MOISTURE_DROP_PERCENTAGE *)
MOISTURE_DROP_PERCENTAGE == 10
(* Rule 1 cut point 0.6, in hundredths *)
LOW_CONFIDENCE_CUT == 60

Abs(x) == IF x < 0 THEN -x ELSE x
Min(a, b) == IF a < b THEN a ELSE b
Max(a, b) == IF a > b THEN a ELSE b

----------------------------------------------------------------------------
(* views.py: magnitude filter tables *)

normal_ranges(sensor_type) ==
    CASE sensor_type = "TEMPERATURE" -> <<18, 28>>
      [] sensor_type = "HUMIDITY" -> <<50, 75>>
      [] sensor_type = "MOISTURE" -> <<40, 70>>
      [] OTHER -> <<0, 100>>

magnitude_thresholds(sensor_type) ==
    CASE sensor_type = "TEMPERATURE" -> 3
      [] sensor_type = "HUMIDITY" -> 8
      [] sensor_type = "MOISTURE" -> 8
      [] OTHER -> 5

(* Reading values tried for a sensor: just outside the widened band, on its
   two edges, and between the band and its lower edge. *)
SensorValues(sensor_type) ==
    LET r == normal_ranges(sensor_type)
        m == magnitude_thresholds(sensor_type)
    IN {r[1] - m - 1, r[1] - m, r[1] - 1, r[2] + m, r[2] + m + 1}

----------------------------------------------------------------------------
(* agent_module.py: rule engine *)

(* TextChoices label of an anomaly type (get_anomaly_type_display) *)
get_anomaly_type_display(anomaly_type) ==
    CASE anomaly_type = "HIGH_MOISTURE" -> "High Moisture"
      [] anomaly_type = "LOW_MOISTURE" -> "Low Moisture"
      [] anomaly_type = "HIGH_TEMPERATURE" -> "High Temperature"
      [] anomaly_type = "LOW_TEMPERATURE" -> "Low Temperature"
      [] anomaly_type = "HIGH_HUMIDITY" -> "High Humidity"
      [] anomaly_type = "LOW_HUMIDITY" -> "Low Humidity"
      [] OTHER -> anomaly_type

derive_sensor_type_from_anomaly(anomaly_type) ==
    IF anomaly_type \in {"HIGH_MOISTURE", "LOW_MOISTURE"} THEN "MOISTURE"
    ELSE IF anomaly_type \in {"HIGH_TEMPERATURE", "LOW_TEMPERATURE"} THEN "TEMPERATURE"
    ELSE IF anomaly_type \in {"HIGH_HUMIDITY", "LOW_HUMIDITY"} THEN "HUMIDITY"
    ELSE None

(* Anomaly type values in ascending string order, as sorted() puts them *)
SortedAnomalyTypes ==
    <<"HIGH_HUMIDITY", "HIGH_MOISTURE", "HIGH_TEMPERATURE",
      "LOW_HUMIDITY", "LOW_MOISTURE", "LOW_TEMPERATURE">>

(* Mutant: the factors are joined as the query returned them *)
factors_as_fetched(factors) == factors

(* sorted(list(set(factors))) *)
sorted_unique(factors) ==
    SelectSeq(SortedAnomalyTypes, LAMBDA a : \E i \in DOMAIN factors : factors[i] = a)

(* SensorReading.objects.filter(plot, sensor_type='MOISTURE',
   timestamp__gte=one_hour_ago, timestamp__lte=event.timestamp): row indices *)
recent_readings(event, rds) ==
    {i \in DOMAIN rds :
        /\ rds[i].plot = event.plot
        /\ rds[i].sensor_type = "MOISTURE"
        /\ rds[i].timestamp >= event.timestamp - SHORT_TIME_WINDOW
        /\ rds[i].timestamp <= event.timestamp}

(* .order_by('timestamp').first() / .last(): among rows with equal timestamps
   the database is free to return any of them. *)
first_readings(event, rds) ==
    LET rr == recent_readings(event, rds)
    IN {i \in rr : \A j \in rr : rds[i].timestamp <= rds[j].timestamp}

last_readings(event, rds) ==
    LET rr == recent_readings(event, rds)
    IN {i \in rr : \A j \in rr : rds[i].timestamp >= rds[j].timestamp}

(* Mutant: the window of co-occurring anomalies is closed at the event's own
   timestamp *)
recent_anomalies_inclusive(event, evs) ==
    {i \in DOMAIN evs :
        /\ evs[i].plot = event.plot
        /\ evs[i].timestamp >= event.timestamp - SHORT_TIME_WINDOW
        /\ evs[i].timestamp <= event.timestamp}

(* AnomalyEvent.objects.filter(plot, timestamp__gte=t-1h, timestamp__lt=t): row indices *)
recent_anomalies(event, evs) ==
    {i \in DOMAIN evs :
        /\ evs[i].plot = event.plot
        /\ evs[i].timestamp >= event.timestamp - SHORT_TIME_WINDOW
        /\ evs[i].timestamp < event.timestamp}

(* Mutant: a drop of exactly MOISTURE_DROP_PERCENTAGE counts *)
drop_exceeds_inclusive(first, last) ==
    (first - last) * 100 >= MOISTURE_DROP_PERCENTAGE * first

(* percentage_drop > MOISTURE_DROP_PERCENTAGE for first > 0, in exact arithmetic:
   ((first - last) / first) * 100 > 10 *)
drop_exceeds(first, last) == (first - last) * 100 > MOISTURE_DROP_PERCENTAGE * first

NoContext == [kind |-> "none", num |-> 0, den |-> 1, factors |-> <<>>]

rule_low_confidence ==
    [action |-> [text |-> "Monitor closely - verify with manual inspection.",
                 anomaly |-> None, plot |-> 0],
     confidence |-> "LOW", template |-> "LOW_CONFIDENCE_MONITOR", context |-> NoContext]

rule_irrigation(first, last) ==
    [action |-> [text |-> "Irrigation check - possible leak or pump failure.",
                 anomaly |-> None, plot |-> 0],
     confidence |-> "HIGH", template |-> "IRRIGATION_CHECK",
     context |-> [kind |-> "moisture_delta", num |-> (first - last) * 100,
                  den |-> first, factors |-> <<>>]]

(* Mutant: rule 3 passes its figure under another key than the template's *)
rule_heat_stress_other_key ==
    [action |-> [text |-> "Heat stress mitigation - increase shade or irrigation frequency.",
                 anomaly |-> None, plot |-> 0],
     confidence |-> "MEDIUM", template |-> "HEAT_STRESS",
     context |-> [kind |-> "temperature_delta", num |-> 5, den |-> 1, factors |-> <<>>]]

rule_heat_stress ==
    [action |-> [text |-> "Heat stress mitigation - increase shade or irrigation frequency.",
                 anomaly |-> None, plot |-> 0],
     confidence |-> "MEDIUM", template |-> "HEAT_STRESS",
     context |-> [kind |-> "temp_delta", num |-> 5, den |-> 1, factors |-> <<>>]]

rule_multi_anomaly(event, evs) ==
    LET ra == recent_anomalies(event, evs)
        all == [i \in 1..Len(evs) + 1 |->
                    IF i <= Len(evs) THEN evs[i].anomaly_type ELSE event.anomaly_type]
        factors == SelectSeq(
            [i \in 1..Len(evs) + 1 |->
                IF i > Len(evs) \/ i \in ra THEN all[i] ELSE None],
            LAMBDA a : a # None)
    IN [action |-> [text |-> "Comprehensive plot inspection - multiple stress factors detected.",
                    anomaly |-> None, plot |-> 0],
        confidence |-> "HIGH", template |-> "MULTI_ANOMALY",
        context |-> [kind |-> "factors", num |-> 0, den |-> 1,
                     factors |-> sorted_unique(factors)]]

(* Mutant: the default action does not name the plot *)
rule_default_without_plot(event) ==
    [action |-> [text |-> "Investigate on plot",
                 anomaly |-> get_anomaly_type_display(event.anomaly_type),
                 plot |-> 0],
     confidence |-> "MEDIUM", template |-> "DEFAULT", context |-> NoContext]

rule_default(event) ==
    [action |-> [text |-> "Investigate on plot",
                 anomaly |-> get_anomaly_type_display(event.anomaly_type),
                 plot |-> event.plot],
     confidence |-> "MEDIUM", template |-> "DEFAULT", context |-> NoContext]

NoDecision ==
    [action |-> [text |-> "", anomaly |-> None, plot |-> 0],
     confidence |-> None, template |-> None, context |-> NoContext]

(* Mutant: the low-confidence rule also catches confidence 0.6 *)
apply_rules_with_inclusive_cut(event, rds, evs, first, last) ==
    LET sensor_type == derive_sensor_type_from_anomaly(event.anomaly_type)
    IN IF event.model_confidence <= LOW_CONFIDENCE_CUT THEN rule_low_confidence
       ELSE IF /\ sensor_type = "MOISTURE"
               /\ Cardinality(recent_readings(event, rds)) > 1
               /\ rds[first].value > 0
               /\ drop_exceeds(rds[first].value, rds[last].value)
            THEN rule_irrigation(rds[first].value, rds[last].value)
       ELSE IF sensor_type = "TEMPERATURE" /\ event.severity \in {"HIGH"}
            THEN rule_heat_stress
       ELSE IF recent_anomalies(event, evs) # {}
            THEN rule_multi_anomaly(event, evs)
       ELSE rule_default(event)

(* Mutant: the general multi-anomaly rule is tried before the specific ones *)
apply_rules_with_multi_first(event, rds, evs, first, last) ==
    LET sensor_type == derive_sensor_type_from_anomaly(event.anomaly_type)
    IN IF event.model_confidence < LOW_CONFIDENCE_CUT THEN rule_low_confidence
       ELSE IF recent_anomalies(event, evs) # {}
            THEN rule_multi_anomaly(event, evs)
       ELSE IF /\ sensor_type = "MOISTURE"
               /\ Cardinality(recent_readings(event, rds)) > 1
               /\ rds[first].value > 0
               /\ drop_exceeds(rds[first].value, rds[last].value)
            THEN rule_irrigation(rds[first].value, rds[last].value)
       ELSE IF sensor_type = "TEMPERATURE" /\ event.severity \in {"HIGH"}
            THEN rule_heat_stress
       ELSE rule_default(event)

(* Mutant: heat stress is selected for MEDIUM severity too *)
apply_rules_with_heat_medium(event, rds, evs, first, last) ==
    LET sensor_type == derive_sensor_type_from_anomaly(event.anomaly_type)
    IN IF event.model_confidence < LOW_CONFIDENCE_CUT THEN rule_low_confidence
       ELSE IF /\ sensor_type = "MOISTURE"
               /\ Cardinality(recent_readings(event, rds)) > 1
               /\ rds[first].value > 0
               /\ drop_exceeds(rds[first].value, rds[last].value)
            THEN rule_irrigation(rds[first].value, rds[last].value)
       ELSE IF sensor_type = "TEMPERATURE" /\ event.severity \in {"HIGH", "MEDIUM"}
            THEN rule_heat_stress
       ELSE IF recent_anomalies(event, evs) # {}
            THEN rule_multi_anomaly(event, evs)
       ELSE rule_default(event)

(* apply_rules, given the rows that first() and last() returned (0 when the
   queryset is empty) *)
apply_rules_with(event, rds, evs, first, last) ==
    LET sensor_type == derive_sensor_type_from_anomaly(event.anomaly_type)
    IN IF event.model_confidence < LOW_CONFIDENCE_CUT THEN rule_low_confidence
       ELSE IF /\ sensor_type = "MOISTURE"
               /\ Cardinality(recent_readings(event, rds)) > 1
               /\ rds[first].value > 0
               /\ drop_exceeds(rds[first].value, rds[last].value)
            THEN rule_irrigation(rds[first].value, rds[last].value)
       ELSE IF sensor_type = "TEMPERATURE" /\ event.severity \in {"HIGH"}
            THEN rule_heat_stress
       ELSE IF recent_anomalies(event, evs) # {}
            THEN rule_multi_anomaly(event, evs)
       ELSE rule_default(event)

(* The decisions apply_rules can return for an event on a database state *)
apply_rules(event, rds, evs) ==
    IF recent_readings(event, rds) = {}
    THEN {apply_rules_with(event, rds, evs, 0, 0)}
    ELSE {apply_rules_with(event, rds, evs, f, l) :
            f \in first_readings(event, rds), l \in last_readings(event, rds)}

(* generate_explanation: the template and the values substituted into it *)
(* EXPLANATION_TEMPLATES: the placeholders of each template; a name that is
   not a key has none and the lookup raises KeyError *)
TemplateNames ==
    {"IRRIGATION_CHECK", "HEAT_STRESS", "MULTI_ANOMALY", "LOW_CONFIDENCE_MONITOR", "DEFAULT"}

EXPLANATION_TEMPLATES(template_name) ==
    CASE template_name = "IRRIGATION_CHECK" ->
            {"timestamp", "plot_id", "model_confidence", "moisture_delta", "action",
             "agent_confidence"}
      [] template_name = "HEAT_STRESS" ->
            {"timestamp", "plot_id", "model_confidence", "temp_delta", "action",
             "agent_confidence"}
      [] template_name = "MULTI_ANOMALY" ->
            {"timestamp", "plot_id", "factors", "action", "agent_confidence"}
      [] template_name = "LOW_CONFIDENCE_MONITOR" ->
            {"timestamp", "anomaly_type", "plot_id", "model_confidence", "action",
             "agent_confidence"}
      [] template_name = "DEFAULT" ->
            {"timestamp", "anomaly_type", "plot_id", "model_confidence", "action",
             "agent_confidence"}
      [] OTHER -> {}

(* generate_explanation, lines 158-166: the keys handed to template.format *)
explanation_context(d) ==
    {"timestamp", "plot_id", "model_confidence", "anomaly_type", "action",
     "agent_confidence"}
        \cup (IF d.context.kind = "none" THEN {} ELSE {d.context.kind})

(* generate_explanation raises KeyError on line 156 for an unknown template
   and on line 168 for a placeholder that the context does not supply *)
explanation_raises(d) ==
    \/ d.template \notin TemplateNames
    \/ ~(EXPLANATION_TEMPLATES(d.template) \subseteq explanation_context(d))

generate_explanation(event, d) ==
    [template |-> d.template,
     timestamp |-> event.timestamp,
     plot_id |-> event.plot,
     model_confidence |-> event.model_confidence,
     anomaly_type |-> get_anomaly_type_display(event.anomaly_type),
     action |-> d.action,
     agent_confidence |-> d.confidence,
     context |-> d.context]

----------------------------------------------------------------------------
(* agent_module.py: generate_recommendation, and the ORM calls it makes *)

(* getattr(anomaly_event, "recommendation", None): the reverse accessor that
   models.py declares is "recommendations", so the attribute never exists. *)
existing_recommendation(recs, event_id) == 0

(* Rows of agent_recommendations whose anomaly_event is the event *)
matching(recs, event_id) == {i \in DOMAIN recs : recs[i].anomaly_event = event_id}

new_recommendation(event_id, event, d) ==
    [anomaly_event |-> event_id,
     timestamp |-> event.timestamp,
     recommended_action |-> d.action,
     explanation_text |-> generate_explanation(event, d),
     confidence |-> d.confidence]

(* One uninterrupted run of generate_recommendation with decision d: the
   table afterwards, the value returned (a row id, 0 for None) and whether it
   raised. *)
generate_recommendation(recs, event_id, event, d) ==
    LET m == matching(recs, event_id)
    IN IF existing_recommendation(recs, event_id) # 0
       THEN [recs |-> recs, ret |-> existing_recommendation(recs, event_id), raised |-> FALSE]
       ELSE IF Cardinality(m) > 1
       THEN [recs |-> recs, ret |-> 0, raised |-> TRUE]        \* MultipleObjectsReturned
       ELSE IF Cardinality(m) = 1
       THEN [recs |-> recs, ret |-> CHOOSE i \in m : TRUE, raised |-> FALSE]
       ELSE [recs |-> Append(recs, new_recommendation(event_id, event, d)),
             ret |-> 0, raised |-> FALSE]                      \* falls off the end

----------------------------------------------------------------------------
(* ml_model.py: the per-sensor detector *)

(* get_detector: None when the artifact is missing or fails to load *)
get_detector(sensor_type) == IF sensor_type \in artifacts THEN sensor_type ELSE None

(* Mutant: one rolling context per detector, shared by all plots *)
get_context_per_sensor(plot_id, sensor_type) == <<1, sensor_type>>

(* _get_context: the rolling context used for a reading is the one stored
   under plot_id in the detector of sensor_type *)
get_context(plot_id, sensor_type) == <<plot_id, sensor_type>>

(* _engineer_features, lines 47-52, for a detector whose self.window is window:
   the value is appended and the oldest one dropped when the context is longer
   than the window *)
append_and_trim(context, value, window) ==
    LET c == Append(context, value)
    IN IF Len(c) > window THEN Tail(c) ELSE c

(* _engineer_features: the rolling context after the new value is added *)
engineer_features_context(context, value) ==
    append_and_trim(context, value, FeatureWindow)

RECURSIVE SumSeq(_)
SumSeq(s) == IF s = <<>> THEN 0 ELSE Head(s) + SumSeq(Tail(s))

(* np.diff *)
np_diff(arr) == [i \in 1..Len(arr) - 1 |-> arr[i + 1] - arr[i]]

Fraction(num, den) == [num |-> num, den |-> den]
SameFraction(a, b) == a.num * b.den = b.num * a.den

(* Sum of squared deviations from the mean, times the number of points *)
Spread(arr) ==
    Len(arr) * SumSeq([i \in DOMAIN arr |-> arr[i] * arr[i]]) - SumSeq(arr) * SumSeq(arr)

(* _engineer_features, lines 58-81: the vector [value, roll_mean, roll_std,
   diff, derivative] computed from the context that already holds the value;
   previous is the context before the call (not read by the code).  roll_std
   is given by its square: arr.std() is the population deviation,
   sqrt(Spread / n^2). *)
engineer_features_vector(context, value, previous) ==
    [value |-> value,
     roll_mean |-> Fraction(SumSeq(context), Len(context)),
     roll_std_sq |-> IF Len(context) > 1
                     THEN Fraction(Spread(context), Len(context) * Len(context))
                     ELSE Fraction(0, 1),
     diff |-> IF Len(context) > 1 THEN value - context[Len(context) - 1] ELSE 0,
     derivative |-> IF Len(context) > 1
                    THEN Fraction(SumSeq(np_diff(context)), Len(context) - 1)
                    ELSE Fraction(0, 1)]

(* Mutant: the flag is raised below the hold threshold instead of below 0 *)
model_predict_below_stop(score) == IF score < raw_stop THEN -1 ELSE 1

(* IsolationForest.predict: -1 where decision_function < 0, else 1 *)
model_predict(score) == IF score < 0 THEN -1 ELSE 1

(* MLAnomalyDetector.predict; outcome carries the oracle's decision_function
   value, or is Throws when scaler.transform / the model raises.  The context is
   updated before the oracle is called. *)
predict(context, value, outcome) ==
    LET c == engineer_features_context(context, value)
    IN IF outcome.raised
       THEN [context |-> c, raised |-> TRUE, is_anomaly |-> FALSE, score |-> 0]
       ELSE [context |-> c, raised |-> FALSE,
             is_anomaly |-> (model_predict(outcome.score) = -1),
             score |-> IF model_predict(outcome.score) = -1
                       THEN Abs(outcome.score) ELSE 0]

----------------------------------------------------------------------------
(* views.py: SensorReadingCreateView.perform_create *)

(* Mutant: the edges of the widened band count as significant *)
is_significant_inclusive(sensor_type, value) ==
    LET r == normal_ranges(sensor_type)
        threshold == magnitude_thresholds(sensor_type)
    IN \/ value <= r[1] - threshold
       \/ value >= r[2] + threshold

is_significant(sensor_type, value) ==
    LET r == normal_ranges(sensor_type)
        threshold == magnitude_thresholds(sensor_type)
    IN \/ value < r[1] - threshold
       \/ value > r[2] + threshold

(* Mutant: the two variants are exchanged *)
anomaly_map_exchanged(sensor_type, value) ==
    LET max_val == normal_ranges(sensor_type)[2]
    IN CASE sensor_type = "TEMPERATURE" ->
                IF value > max_val THEN "LOW_TEMPERATURE" ELSE "HIGH_TEMPERATURE"
         [] sensor_type = "HUMIDITY" ->
                IF value > max_val THEN "LOW_HUMIDITY" ELSE "HIGH_HUMIDITY"
         [] sensor_type = "MOISTURE" ->
                IF value > max_val THEN "LOW_MOISTURE" ELSE "HIGH_MOISTURE"
         [] OTHER -> "HIGH_TEMPERATURE"

anomaly_map(sensor_type, value) ==
    LET max_val == normal_ranges(sensor_type)[2]
    IN CASE sensor_type = "TEMPERATURE" ->
                IF value > max_val THEN "HIGH_TEMPERATURE" ELSE "LOW_TEMPERATURE"
         [] sensor_type = "HUMIDITY" ->
                IF value > max_val THEN "HIGH_HUMIDITY" ELSE "LOW_HUMIDITY"
         [] sensor_type = "MOISTURE" ->
                IF value > max_val THEN "HIGH_MOISTURE" ELSE "LOW_MOISTURE"
         [] OTHER -> "HIGH_TEMPERATURE"

(* Mutant: the cut points belong to the lower class *)
severity_of_inclusive(confidence_score) ==
    IF confidence_score <= 65 THEN "LOW"
    ELSE IF confidence_score <= 80 THEN "MEDIUM"
    ELSE "HIGH"

severity_of(confidence_score) ==
    IF confidence_score < 65 THEN "LOW"
    ELSE IF confidence_score < 80 THEN "MEDIUM"
    ELSE "HIGH"

new_anomaly(plot, sensor_type, value, confidence_score, t) ==
    [plot |-> plot,
     anomaly_type |-> anomaly_map(sensor_type, value),
     severity |-> severity_of(confidence_score),
     model_confidence |-> Min(confidence_score, 100),
     timestamp |-> t]

(* Does perform_create go on to AnomalyEvent.objects.create? *)
creates_event(sensor_type, value, p) ==
    /\ p.is_anomaly
    /\ is_significant(sensor_type, value)

(* The whole handler for one POST /api/sensor-readings/.  When an event is
   created, post_save schedules the hook with on_commit, and the view then
   calls generate_recommendation itself; both run in the request's thread, one
   after the other, on the same database state. *)
perform_create(plot, sensor_type, value, outcome) ==
    /\ Len(readings) < MaxReadings
    /\ readings' = Append(readings,
            [plot |-> plot, sensor_type |-> sensor_type, value |-> value, timestamp |-> now])
    /\ IF get_detector(sensor_type) = None
       THEN /\ log' = Append(log, [plot |-> plot, sensor_type |-> sensor_type,
                        value |-> value, outcome |-> Returns(0), predicted |-> FALSE,
                        is_anomaly |-> FALSE, event |-> 0])
            /\ UNCHANGED <<plot_contexts, anomalies, recommendations>>
       ELSE
         LET p == predict(plot_contexts[get_context(plot, sensor_type)], value, outcome)
             made == creates_event(sensor_type, value, p)
             event == new_anomaly(plot, sensor_type, value, p.score, now)
             evs == Append(anomalies, event)
             id == Len(evs)
         IN /\ plot_contexts' =
                    [plot_contexts EXCEPT ![get_context(plot, sensor_type)] = p.context]
            /\ log' = Append(log, [plot |-> plot, sensor_type |-> sensor_type,
                        value |-> value, outcome |-> outcome, predicted |-> TRUE,
                        is_anomaly |-> p.is_anomaly, event |-> IF made THEN id ELSE 0])
            /\ IF made
               THEN /\ anomalies' = evs
                    /\ \E d1, d2 \in apply_rules(event, readings', evs) :
                         LET hook == generate_recommendation(recommendations, id, event, d1)
                             direct == generate_recommendation(hook.recs, id, event, d2)
                         IN recommendations' = direct.recs
               ELSE UNCHANGED <<anomalies, recommendations>>
    /\ UNCHANGED <<now, artifacts, pc, local, decision>>

(* Time passes between requests *)
Tick ==
    /\ now < MaxTime
    /\ now' = now + 1
    /\ UNCHANGED <<artifacts, plot_contexts, readings, anomalies, recommendations,
                   log, pc, local, decision>>

Init ==
    /\ now = 0
    /\ artifacts \in ArtifactSets
    /\ plot_contexts = [k \in Keys |-> <<>>]
    /\ readings = <<>>
    /\ anomalies = <<>>
    /\ recommendations = <<>>
    /\ log = <<>>
    /\ pc = <<>>
    /\ local = <<>>
    /\ decision = NoDecision

Ingest ==
    \E plot \in Plots, sensor_type \in SensorTypes :
        \E value \in SensorValues(sensor_type), outcome \in Outcomes :
            perform_create(plot, sensor_type, value, outcome)

Next == Ingest \/ Tick

Spec == Init /\ [][Next]_vars

----------------------------------------------------------------------------
(* The detectors on their own: MLAnomalyDetector.predict called for readings
   of several plots and sensors, with values that may be NaN or infinite *)

MaxCalls == 3

(* A reading value that is not a finite number (NaN, inf, -inf); predict
   takes any float.  Finite values are the integers below it. *)
NonFinite == 1000000

DetectorPlots == {1, 2}
DetectorSensors == {"MOISTURE", "TEMPERATURE"}
DetectorKeys == DetectorPlots \X DetectorSensors
DetectorValues == {31, 45, NonFinite}
DetectorOutcomes == {Returns(-70), Returns(5), Throws}

InitDetector ==
    /\ now = 0
    /\ artifacts = SensorTypes
    /\ plot_contexts = [k \in DetectorKeys |-> <<>>]
    /\ readings = <<>>
    /\ anomalies = <<>>
    /\ recommendations = <<>>
    /\ log = <<>>
    /\ pc = <<>>
    /\ local = <<>>
    /\ decision = NoDecision

(* One call detector.predict(plot_id, sensor_type, value) on the detector that
   get_detector returns *)
detector_predict(plot_id, sensor_type, value, outcome) ==
    /\ Len(log) < MaxCalls
    /\ get_detector(sensor_type) # None
    /\ LET p == predict(plot_contexts[get_context(plot_id, sensor_type)], value, outcome)
       IN /\ plot_contexts' =
                [plot_contexts EXCEPT ![get_context(plot_id, sensor_type)] = p.context]
          /\ log' = Append(log, [plot |-> plot_id, sensor_type |-> sensor_type,
                        value |-> value, outcome |-> outcome, predicted |-> TRUE,
                        is_anomaly |-> p.is_anomaly, event |-> 0])
    /\ UNCHANGED <<now, artifacts, readings, anomalies, recommendations, pc, local, decision>>

Observe ==
    \E plot_id \in DetectorPlots, sensor_type \in DetectorSensors :
        \E value \in DetectorValues, outcome \in DetectorOutcomes :
            detector_predict(plot_id, sensor_type, value, outcome)

NextDetector == Observe

SpecDetector == InitDetector /\ [][NextDetector]_vars

----------------------------------------------------------------------------
(* The rule engine on its own: apply_rules evaluated for one persisted event
   over a bounded history of readings and of other anomaly events *)

RulePlots == {1, 2}
RuleValues == {0, 45, 50, 60}
RuleConfidences == {59, 60, 80}
RuleOtherTypes == {"LOW_MOISTURE", "HIGH_TEMPERATURE"}

(* Moisture readings of the event's plot with every value, and readings of
   another plot and of another sensor with the extreme values *)
RuleReadingPool ==
    {[plot |-> 1, sensor_type |-> "MOISTURE", value |-> v, timestamp |-> t] :
        v \in RuleValues, t \in 0..MaxTime}
    \cup
    {[plot |-> k[1], sensor_type |-> k[2], value |-> v, timestamp |-> t] :
        k \in {<<2, "MOISTURE">>, <<1, "TEMPERATURE">>},
        v \in {0, 60}, t \in 0..MaxTime}

RuleOtherPool ==
    {[plot |-> p, anomaly_type |-> a, severity |-> "LOW", model_confidence |-> 80,
      timestamp |-> t] : p \in RulePlots, a \in RuleOtherTypes, t \in 0..MaxTime}

(* The event is evaluated at the last or the last but one instant, so that
   rows stamped later than the event exist too *)
RuleEvents ==
    {[plot |-> 1, anomaly_type |-> a, severity |-> sv, model_confidence |-> c,
      timestamp |-> t] :
        a \in AnomalyTypes, sv \in SeverityLevels, c \in RuleConfidences,
        t \in {MaxTime - 1, MaxTime}}

(* Rows are inserted with auto_now_add, so a table is ordered by timestamp *)
InInsertionOrder(rows) ==
    \A i, j \in DOMAIN rows : i < j => rows[i].timestamp <= rows[j].timestamp

Histories(pool, n) ==
    {h \in UNION {[1..m -> pool] : m \in 0..n} : InInsertionOrder(h)}

(* The event under evaluation is the newest row of anomaly_events *)
Target == anomalies[Len(anomalies)]

InitRules ==
    /\ now = MaxTime
    /\ artifacts = SensorTypes
    /\ plot_contexts = [k \in Keys |-> <<>>]
    /\ readings \in Histories(RuleReadingPool, MaxHistory)
    /\ \E others \in Histories(RuleOtherPool, MaxOthers), event \in RuleEvents :
            anomalies = Append(others, event)
    /\ recommendations = <<>>
    /\ log = <<>>
    /\ pc = <<>>
    /\ local = <<>>
    /\ decision = NoDecision

Evaluate ==
    /\ decision = NoDecision
    /\ \E d \in apply_rules(Target, readings, anomalies) : decision' = d
    /\ UNCHANGED <<now, artifacts, plot_contexts, readings, anomalies, recommendations,
                   log, pc, local>>

NextRules == Evaluate

SpecRules == InitRules /\ [][NextRules]_vars

----------------------------------------------------------------------------
(* The rule engine on events with several co-occurring anomalies: the table
   holds up to MaxFactors other events of the plot, of any type, stamped in the
   trailing hour or at the event's own instant *)

MaxFactors == 3

FactorPool ==
    {[plot |-> 1, anomaly_type |-> a, severity |-> "LOW", model_confidence |-> 80,
      timestamp |-> t] : a \in AnomalyTypes, t \in {MaxTime - 1, MaxTime}}

FactorEvents ==
    {[plot |-> 1, anomaly_type |-> a, severity |-> sv, model_confidence |-> 80,
      timestamp |-> MaxTime] : a \in AnomalyTypes, sv \in {"LOW", "HIGH"}}

InitFactors ==
    /\ now = MaxTime
    /\ artifacts = SensorTypes
    /\ plot_contexts = [k \in Keys |-> <<>>]
    /\ readings = <<>>
    /\ \E others \in Histories(FactorPool, MaxFactors), event \in FactorEvents :
            anomalies = Append(others, event)
    /\ recommendations = <<>>
    /\ log = <<>>
    /\ pc = <<>>
    /\ local = <<>>
    /\ decision = NoDecision

NextFactors == Evaluate

SpecFactors == InitFactors /\ [][NextFactors]_vars

----------------------------------------------------------------------------
(* The two triggers of generate_recommendation for one new AnomalyEvent (row 1):
   the direct call and the post_save / on_commit hook, statement by statement *)

Triggers == {"direct", "hook"}

AgentEvents ==
    {[plot |-> 1, anomaly_type |-> a, severity |-> sv, model_confidence |-> c,
      timestamp |-> 0] :
        a \in {"LOW_MOISTURE", "HIGH_TEMPERATURE"}, sv \in {"HIGH", "LOW"}, c \in {40, 80}}

InitAgent ==
    /\ now = 0
    /\ artifacts = SensorTypes
    /\ plot_contexts = [k \in Keys |-> <<>>]
    /\ readings = <<>>
    /\ \E event \in AgentEvents : anomalies = <<event>>
    /\ recommendations = <<>>
    /\ log = <<>>
    /\ pc = [t \in Triggers |-> "start"]
    /\ local = [t \in Triggers |->
                    [decision |-> NoDecision, ret |-> 0, raised |-> FALSE, second |-> FALSE,
                     unavailable |-> FALSE]]
    /\ decision = NoDecision

(* line 48-50: look for an attached recommendation *)
gr_start(t) ==
    /\ pc[t] = "start"
    /\ LET existing == existing_recommendation(recommendations, 1)
           second == \E u \in Triggers \ {t} : pc[u] = "done"
       IN IF existing # 0
          THEN /\ pc' = [pc EXCEPT ![t] = "done"]
               /\ local' = [local EXCEPT ![t].ret = existing, ![t].second = second]
          ELSE /\ pc' = [pc EXCEPT ![t] = "rules"]
               /\ local' = [local EXCEPT ![t].second = second]
    /\ UNCHANGED <<now, artifacts, plot_contexts, readings, anomalies, recommendations,
                   log, decision>>

(* line 53-56: apply_rules and generate_explanation *)
gr_rules(t) ==
    /\ pc[t] = "rules"
    /\ \E d \in apply_rules(anomalies[1], readings, anomalies) :
            local' = [local EXCEPT ![t].decision = d]
    /\ pc' = [pc EXCEPT ![t] = "get"]
    /\ UNCHANGED <<now, artifacts, plot_contexts, readings, anomalies, recommendations,
                   log, decision>>

(* line 59: get_or_create, the lookup *)
gr_get(t) ==
    /\ pc[t] = "get"
    /\ LET m == matching(recommendations, 1)
       IN IF m = {}
          THEN /\ pc' = [pc EXCEPT ![t] = "create"]
               /\ UNCHANGED local
          ELSE /\ pc' = [pc EXCEPT ![t] = "done"]
               /\ local' = IF Cardinality(m) = 1
                           THEN [local EXCEPT ![t].ret = CHOOSE i \in m : TRUE]
                           ELSE [local EXCEPT ![t].raised = TRUE]
    /\ UNCHANGED <<now, artifacts, plot_contexts, readings, anomalies, recommendations,
                   log, decision>>

(* line 59-73: get_or_create, the insert; nothing in the schema rejects a
   second row for the event; the function then ends without a return value *)
gr_create(t) ==
    /\ pc[t] = "create"
    /\ recommendations' =
            Append(recommendations, new_recommendation(1, anomalies[1], local[t].decision))
    /\ pc' = [pc EXCEPT ![t] = "done"]
    /\ local' = [local EXCEPT ![t].ret = 0]
    /\ UNCHANGED <<now, artifacts, plot_contexts, readings, anomalies, log, decision>>

(* Other requests store readings and anomalies meanwhile *)
add_reading ==
    /\ Len(readings) < MaxHistory
    /\ \E v \in RuleValues :
            readings' = Append(readings,
                [plot |-> 1, sensor_type |-> "MOISTURE", value |-> v, timestamp |-> now])
    /\ UNCHANGED <<now, artifacts, plot_contexts, anomalies, recommendations,
                   log, pc, local, decision>>

add_anomaly ==
    /\ Len(anomalies) < 1 + MaxOthers
    /\ \E a \in RuleOtherTypes :
            anomalies' = Append(anomalies,
                [plot |-> 1, anomaly_type |-> a, severity |-> "LOW",
                 model_confidence |-> 80, timestamp |-> now])
    /\ UNCHANGED <<now, artifacts, plot_contexts, readings, recommendations,
                   log, pc, local, decision>>

NextAgent ==
    \/ \E t \in Triggers : gr_start(t)
    \/ \E t \in Triggers : gr_rules(t)
    \/ \E t \in Triggers : gr_get(t)
    \/ \E t \in Triggers : gr_create(t)
    \/ add_reading
    \/ add_anomaly
    \/ Tick

SpecAgent == InitAgent /\ [][NextAgent]_vars

----------------------------------------------------------------------------
(* The same two triggers when the database may fail to answer the rule
   engine's history queries *)

(* Does apply_rules query the history for this event?  Rule 1 returns before
   any query; a moisture event runs the readings query; a temperature event of
   severity HIGH returns from rule 3 before the anomalies query. *)
lookups_made(event) ==
    LET sensor_type == derive_sensor_type_from_anomaly(event.anomaly_type)
    IN /\ ~(event.model_confidence < LOW_CONFIDENCE_CUT)
       /\ \/ sensor_type = "MOISTURE"
          \/ ~(sensor_type = "TEMPERATURE" /\ event.severity \in {"HIGH"})

(* line 53 when a history query raises: apply_rules has no handler, so the
   exception leaves generate_recommendation before get_or_create; the hook
   prints it, the direct call passes it on to the view *)
gr_rules_unavailable(t) ==
    /\ pc[t] = "rules"
    /\ lookups_made(anomalies[1])
    /\ pc' = [pc EXCEPT ![t] = "done"]
    /\ local' = [local EXCEPT ![t].raised = TRUE, ![t].unavailable = TRUE]
    /\ UNCHANGED <<now, artifacts, plot_contexts, readings, anomalies, recommendations,
                   log, decision>>

NextAgentFaulty ==
    \/ NextAgent
    \/ \E t \in Triggers : gr_rules_unavailable(t)

SpecAgentFaulty == InitAgent /\ [][NextAgentFaulty]_vars

----------------------------------------------------------------------------
(* The post_save hook of AnomalyEvent (signals.py) under the transaction of
   the saving connection.  local holds the connection's transaction: whether
   an atomic block is open, the tables as they were when it was opened, the
   callbacks registered with on_commit, and a serial number per INSERT;
   log records each run of the hook's callback. *)

MaxCreates == 2

NoTransaction ==
    [in_atomic |-> FALSE, saved_anomalies |-> <<>>, saved_recommendations |-> <<>>,
     on_commit |-> <<>>, serial |-> 0, pending |-> {}, rolled_back |-> {}, resaved |-> {}]

InitHook ==
    /\ now = 0
    /\ artifacts = SensorTypes
    /\ plot_contexts = [k \in Keys |-> <<>>]
    /\ readings = <<>>
    /\ anomalies = <<>>
    /\ recommendations = <<>>
    /\ log = <<>>
    /\ pc = <<>>
    /\ local = NoTransaction
    /\ decision = NoDecision

(* Mutant: the receiver calls generate_recommendation itself *)
create_recommendation_without_on_commit(created, in_atomic) ==
    IF ~created THEN "return" ELSE "run"

(* create_recommendation_on_anomaly: nothing for a row that was not created
   by this save; otherwise (hasattr(instance, "recommendation") is never true)
   transaction.on_commit(_make_rec), which runs the callback at once when no
   atomic block is open and queues it otherwise *)
create_recommendation_on_anomaly(created, in_atomic) ==
    IF ~created THEN "return"
    ELSE IF in_atomic THEN "defer"
    ELSE "run"

(* _make_rec for row id: generate_recommendation, any exception printed.  No
   readings are stored here, so apply_rules has a single result. *)
make_rec(recs, evs, id) ==
    LET d == CHOOSE x \in apply_rules(evs[id], readings, evs) : TRUE
    IN generate_recommendation(recs, id, evs[id], d).recs

(* The queued callbacks run in registration order *)
RECURSIVE run_on_commit(_, _, _)
run_on_commit(queue, recs, evs) ==
    IF queue = <<>> THEN recs
    ELSE run_on_commit(Tail(queue), make_rec(recs, evs, Head(queue).id), evs)

hook_run(id, serial, created, committed) ==
    [event |-> id, serial |-> serial, created |-> created, committed |-> committed]

(* with transaction.atomic(): entered *)
atomic_enter ==
    /\ ~local.in_atomic
    /\ local' = [local EXCEPT !.in_atomic = TRUE,
                              !.saved_anomalies = anomalies,
                              !.saved_recommendations = recommendations]
    /\ UNCHANGED <<now, artifacts, plot_contexts, readings, anomalies, recommendations,
                   log, pc, decision>>

(* AnomalyEvent.objects.create(...): INSERT, then post_save with created = True *)
create_anomaly(event) ==
    /\ local.serial < MaxCreates
    /\ LET evs == Append(anomalies, event)
           id == Len(evs)
           serial == local.serial + 1
           todo == create_recommendation_on_anomaly(TRUE, local.in_atomic)
       IN /\ anomalies' = evs
          /\ local' = [local EXCEPT
                !.serial = serial,
                !.pending = IF local.in_atomic THEN @ \cup {serial} ELSE @,
                !.on_commit = IF todo = "defer"
                              THEN Append(@, [id |-> id, serial |-> serial]) ELSE @]
          /\ IF todo = "run"
             THEN /\ recommendations' = make_rec(recommendations, evs, id)
                  /\ log' = Append(log, hook_run(id, serial, TRUE, ~local.in_atomic))
             ELSE UNCHANGED <<recommendations, log>>
    /\ UNCHANGED <<now, artifacts, plot_contexts, readings, pc, decision>>

(* instance.save() of a row that exists: UPDATE, then post_save with
   created = False *)
save_anomaly(id, severity) ==
    /\ id \in DOMAIN anomalies
    /\ anomalies[id].severity # severity
    /\ LET evs == [anomalies EXCEPT ![id].severity = severity]
           todo == create_recommendation_on_anomaly(FALSE, local.in_atomic)
       IN /\ anomalies' = evs
          /\ local' = [local EXCEPT
                !.resaved = @ \cup {id},
                !.on_commit = IF todo = "defer"
                              THEN Append(@, [id |-> id, serial |-> 0]) ELSE @]
          /\ IF todo = "run"
             THEN /\ recommendations' = make_rec(recommendations, evs, id)
                  /\ log' = Append(log, hook_run(id, 0, FALSE, ~local.in_atomic))
             ELSE UNCHANGED <<recommendations, log>>
    /\ UNCHANGED <<now, artifacts, plot_contexts, readings, pc, decision>>

(* The atomic block ends normally: COMMIT, then the on_commit callbacks *)
atomic_commit ==
    /\ local.in_atomic
    /\ recommendations' = run_on_commit(local.on_commit, recommendations, anomalies)
    /\ log' = log \o [i \in DOMAIN local.on_commit |->
                        hook_run(local.on_commit[i].id, local.on_commit[i].serial,
                                 local.on_commit[i].serial # 0, TRUE)]
    /\ local' = [local EXCEPT !.in_atomic = FALSE, !.on_commit = <<>>, !.pending = {},
                              !.saved_anomalies = <<>>, !.saved_recommendations = <<>>]
    /\ UNCHANGED <<now, artifacts, plot_contexts, readings, anomalies, pc, decision>>

(* The atomic block ends with an exception: ROLLBACK, the callbacks are dropped *)
atomic_rollback ==
    /\ local.in_atomic
    /\ anomalies' = local.saved_anomalies
    /\ recommendations' = local.saved_recommendations
    /\ local' = [local EXCEPT !.in_atomic = FALSE, !.on_commit = <<>>, !.pending = {},
                              !.rolled_back = @ \cup local.pending,
                              !.saved_anomalies = <<>>, !.saved_recommendations = <<>>]
    /\ UNCHANGED <<now, artifacts, plot_contexts, readings, log, pc, decision>>

NextHook ==
    \/ atomic_enter
    \/ \E event \in AgentEvents : create_anomaly(event)
    \/ \E id \in 1..MaxCreates, severity \in {"HIGH", "LOW"} : save_anomaly(id, severity)
    \/ atomic_commit
    \/ atomic_rollback

SpecHook == InitHook /\ [][NextHook]_vars

----------------------------------------------------------------------------
(* Reading the call history: the observations of one SeriesKey *)

SameKey(i, j) == log[i].plot = log[j].plot /\ log[i].sensor_type = log[j].sensor_type

(* Calls 1..i that reached predict for the key of call i *)
Observations(i) == {j \in 1..i : SameKey(i, j) /\ log[j].predicted}

(* The latest earlier observation of the key of call i, 0 if none *)
Previous(i) ==
    LET before == Observations(i) \ {i}
    IN IF before = {} THEN 0 ELSE CHOOSE j \in before : \A h \in before : h <= j

(* State of the key before call i: ANOMALOUS iff the previous observation
   returned is_anomaly = true *)
WasAnomalous(i) == Previous(i) # 0 /\ log[Previous(i)].is_anomaly

(* The last n observations of the key, ending with call i (fewer if there
   are fewer) *)
LastObservations(i, n) ==
    {j \in Observations(i) : Cardinality({h \in Observations(i) : h >= j}) <= n}

EntryHit(j) == ~log[j].outcome.raised /\ log[j].outcome.score < raw_start
Clear(j) == ~log[j].outcome.raised /\ log[j].outcome.score >= raw_stop
Between(j) ==
    /\ ~log[j].outcome.raised
    /\ raw_start <= log[j].outcome.score
    /\ log[j].outcome.score < raw_stop

----------------------------------------------------------------------------
(* C1: predict never returns is_anomaly = true while fewer than
   warmup_floor = max(15, 1.5 x window_size) readings have been observed for
   the key. *)
C1_NoAnomalyDuringWarmup ==
    \A i \in DOMAIN log :
        (log[i].predicted /\ 2 * Cardinality(Observations(i)) < Max(30, 3 * FeatureWindow))
            => ~log[i].is_anomaly

(* C2: in state NORMAL, predict returns is_anomaly = true exactly when the
   last k = min_consecutive observations of the key were all entry hits
   (raw_score < raw_start); fewer than k consecutive hits leave it false. *)
C2_EntryNeedsKHits ==
    \A i \in DOMAIN log :
        (log[i].predicted /\ ~WasAnomalous(i)) =>
            (log[i].is_anomaly <=>
                /\ Cardinality(Observations(i)) >= min_consecutive(log[i].sensor_type)
                /\ \A j \in LastObservations(i, min_consecutive(log[i].sensor_type)) :
                        EntryHit(j))

(* C3: once a key is ANOMALOUS, predict keeps returning is_anomaly = true
   until k consecutive observations with raw_score >= raw_stop have been seen:
   still true after k-1 of them, false after the k-th. *)
C3_ExitNeedsKClears ==
    \A i \in DOMAIN log :
        (log[i].predicted /\ WasAnomalous(i) /\ ~log[i].outcome.raised) =>
            (~log[i].is_anomaly <=>
                /\ Cardinality(Observations(i)) >= min_consecutive(log[i].sensor_type)
                /\ \A j \in LastObservations(i, min_consecutive(log[i].sensor_type)) :
                        Clear(j))

(* C4: for a key in state NORMAL, an observation with
   raw_start <= raw_score < raw_stop is a miss: it does not make is_anomaly
   true (and creates no event), and it is no step towards entry: if the next
   observation of the key enters, that observation is itself an entry hit. *)
C4_BetweenThresholdsIsMiss ==
    \A i \in DOMAIN log :
        (log[i].predicted /\ ~WasAnomalous(i) /\ Between(i)) =>
            /\ ~log[i].is_anomaly
            /\ log[i].event = 0
            /\ \A n \in DOMAIN log :
                    (n > i /\ log[n].predicted /\ Previous(n) = i /\ log[n].is_anomaly)
                        => EntryHit(n)

(* C4 witness: a key with history, in state NORMAL, receives a reading whose
   value passes the magnitude gate and whose score lies between the thresholds *)
C4_Witness ==
    \E i \in DOMAIN log :
        /\ log[i].predicted /\ Previous(i) # 0 /\ ~WasAnomalous(i) /\ Between(i)
        /\ is_significant(log[i].sensor_type, log[i].value)
        /\ ~log[i].is_anomaly

(* C5: an AnomalyEvent is created only on a NORMAL to ANOMALOUS transition, so
   a run of readings during which the detector stays anomalous produces at
   most one event. *)
C5_EventOnlyOnEntry ==
    \A i \in DOMAIN log : log[i].event # 0 => ~WasAnomalous(i)

(* The widened normal band [min - margin, max + margin] of the claim *)
WidenedBand(sensor_type) ==
    CASE sensor_type = "TEMPERATURE" -> <<18 - 3, 28 + 3>>
      [] sensor_type = "HUMIDITY" -> <<50 - 8, 75 + 8>>
      [] sensor_type = "MOISTURE" -> <<40 - 8, 70 + 8>>

InsideWidenedBand(sensor_type, value) ==
    WidenedBand(sensor_type)[1] <= value /\ value <= WidenedBand(sensor_type)[2]

(* C6: the ingest path creates no AnomalyEvent for a reading whose value lies
   inside the widened normal band of its sensor (edges included), even when
   the detector flags it; every stored event comes from a reading outside. *)
C6_MagnitudeGate ==
    /\ \A i \in DOMAIN log :
            InsideWidenedBand(log[i].sensor_type, log[i].value) => log[i].event = 0
    /\ \A e \in DOMAIN anomalies : \E i \in DOMAIN log : log[i].event = e

(* C6 witness: the detector flags readings on both edges of a widened band
   and neither produces an event *)
C6_Witness ==
    /\ \E i \in DOMAIN log :
        /\ log[i].is_anomaly /\ log[i].event = 0
        /\ log[i].value = WidenedBand(log[i].sensor_type)[1]
    /\ \E i \in DOMAIN log :
        /\ log[i].is_anomaly /\ log[i].event = 0
        /\ log[i].value = WidenedBand(log[i].sensor_type)[2]

----------------------------------------------------------------------------
(* The conditions of the five rules, stated on the tables for the event under
   evaluation (the newest anomaly row) *)

MoistureHour ==
    {i \in DOMAIN readings :
        /\ readings[i].plot = Target.plot
        /\ readings[i].sensor_type = "MOISTURE"
        /\ Target.timestamp - SHORT_TIME_WINDOW <= readings[i].timestamp
        /\ readings[i].timestamp <= Target.timestamp}

Earliest == {i \in MoistureHour :
                \A j \in MoistureHour : readings[i].timestamp <= readings[j].timestamp}
Latest == {i \in MoistureHour :
                \A j \in MoistureHour : readings[j].timestamp <= readings[i].timestamp}

BigDrop(f, l) ==
    /\ readings[f].value > 0
    /\ (readings[f].value - readings[l].value) * 100 > 10 * readings[f].value

LowConfidenceHolds == Target.model_confidence < 60

(* With several readings at the earliest or latest instant the drop may
   depend on which of them the store returns *)
IrrigationMayHold ==
    /\ Target.anomaly_type \in {"HIGH_MOISTURE", "LOW_MOISTURE"}
    /\ Cardinality(MoistureHour) >= 2
    /\ \E f \in Earliest, l \in Latest : BigDrop(f, l)

IrrigationMustHold ==
    /\ Target.anomaly_type \in {"HIGH_MOISTURE", "LOW_MOISTURE"}
    /\ Cardinality(MoistureHour) >= 2
    /\ \A f \in Earliest, l \in Latest : BigDrop(f, l)

HeatStressHolds ==
    /\ Target.anomaly_type \in {"HIGH_TEMPERATURE", "LOW_TEMPERATURE"}
    /\ Target.severity = "HIGH"

OtherAnomalyHolds ==
    \E i \in 1..Len(anomalies) - 1 :
        /\ anomalies[i].plot = Target.plot
        /\ Target.timestamp - SHORT_TIME_WINDOW <= anomalies[i].timestamp
        /\ anomalies[i].timestamp < Target.timestamp

(* Templates a first-match evaluation in the order low-confidence, irrigation
   check, heat stress, multi-anomaly, default may select *)
FirstMatch ==
    IF LowConfidenceHolds THEN {"LOW_CONFIDENCE_MONITOR"}
    ELSE (IF IrrigationMayHold THEN {"IRRIGATION_CHECK"} ELSE {})
         \cup (IF IrrigationMustHold THEN {}
               ELSE IF HeatStressHolds THEN {"HEAT_STRESS"}
               ELSE IF OtherAnomalyHolds THEN {"MULTI_ANOMALY"}
               ELSE {"DEFAULT"})

TemplateConfidence(template) ==
    CASE template = "LOW_CONFIDENCE_MONITOR" -> "LOW"
      [] template = "IRRIGATION_CHECK" -> "HIGH"
      [] template = "HEAT_STRESS" -> "MEDIUM"
      [] template = "MULTI_ANOMALY" -> "HIGH"
      [] template = "DEFAULT" -> "MEDIUM"
      [] OTHER -> None

(* C9: apply_rules returns the decision of the lowest-numbered rule whose
   condition holds, in the order low-confidence, irrigation check, heat
   stress, multi-anomaly, default; so a HIGH temperature event or a moisture
   event with a >10% drop keeps its specific rule when other anomalies exist. *)
C9_FirstMatchOrder ==
    decision # NoDecision =>
        /\ decision.template \in FirstMatch
        /\ decision.confidence = TemplateConfidence(decision.template)

(* C9 witness: a HIGH-severity temperature event with confidence >= 0.6 and
   another anomaly on the plot in the trailing hour is decided as HEAT_STRESS *)
C9_Witness ==
    /\ decision.template = "HEAT_STRESS"
    /\ Target.model_confidence >= 60
    /\ OtherAnomalyHolds

(* C10: an event with model_confidence < 0.6 is decided as
   LOW_CONFIDENCE_MONITOR with agent confidence LOW whatever its type,
   severity and history; confidence exactly 0.6 is not caught by the rule. *)
C10_LowConfidenceOverride ==
    decision # NoDecision =>
        /\ Target.model_confidence < 60 =>
                /\ decision.template = "LOW_CONFIDENCE_MONITOR"
                /\ decision.confidence = "LOW"
        /\ Target.model_confidence = 60 => decision.template # "LOW_CONFIDENCE_MONITOR"

(* C10 witness: a low-confidence moisture event with a big drop and another
   anomaly on the plot is still decided as LOW_CONFIDENCE_MONITOR *)
C10_Witness ==
    /\ decision.template = "LOW_CONFIDENCE_MONITOR"
    /\ Target.model_confidence = 59
    /\ Target.anomaly_type = "LOW_MOISTURE"
    /\ Cardinality(MoistureHour) >= 2
    /\ \A f \in Earliest, l \in Latest : BigDrop(f, l)
    /\ OtherAnomalyHolds

----------------------------------------------------------------------------
(* C7: under any interleaving of the two triggers of generate_recommendation
   for one AnomalyEvent, at most one AgentRecommendation row exists for the
   event in every reachable state, and exactly one once both have finished. *)
C7_AtMostOneRecommendation ==
    /\ Cardinality(matching(recommendations, 1)) <= 1
    /\ (\A t \in Triggers : pc[t] = "done")
            => Cardinality(matching(recommendations, 1)) = 1

(* C8: a second invocation of generate_recommendation for the same event
   (started after the first one finished) returns the very recommendation
   that the first invocation created and returned, and leaves the persisted
   action, explanation and confidence as the first one wrote them. *)
C8_SecondReturnsFirst ==
    \A t \in Triggers : \A u \in Triggers \ {t} :
        (pc[t] = "done" /\ pc[u] = "done" /\ local[t].second) =>
            /\ local[t].ret # 0
            /\ local[u].ret = local[t].ret
            /\ Cardinality(matching(recommendations, 1)) = 1
            /\ recommendations[local[t].ret] =
                    new_recommendation(1, anomalies[1], local[u].decision)

----------------------------------------------------------------------------
(* C11: apply_rules selects IRRIGATION_CHECK (agent confidence HIGH, context
   carrying the drop percentage) exactly when the event has confidence >= 0.6,
   a moisture type, at least 2 moisture readings of its plot stamped in
   [t-1h, t], an earliest value > 0 and a drop strictly greater than 10%.
   Where several readings share the earliest or the latest instant, the drop
   is that of the pair the store returned. *)
C11_IrrigationCheck ==
    decision # NoDecision =>
        /\ decision.template = "IRRIGATION_CHECK" =>
            /\ Target.model_confidence >= 60
            /\ Target.anomaly_type \in {"HIGH_MOISTURE", "LOW_MOISTURE"}
            /\ Cardinality(MoistureHour) >= 2
            /\ decision.confidence = "HIGH"
            /\ decision.context.kind = "moisture_delta"
            /\ \E f \in Earliest, l \in Latest :
                    /\ BigDrop(f, l)
                    /\ decision.context.num = (readings[f].value - readings[l].value) * 100
                    /\ decision.context.den = readings[f].value
        /\ (Target.model_confidence >= 60 /\ IrrigationMustHold)
                => decision.template = "IRRIGATION_CHECK"

(* C11 witness: moisture 60 one hour before the event and 50 at the event,
   confidence 0.8: IRRIGATION_CHECK with a drop of 1000/60 = 16.7% *)
C11_Witness ==
    /\ decision.template = "IRRIGATION_CHECK"
    /\ Target.model_confidence = 80
    /\ \E f \in Earliest, l \in Latest :
            /\ readings[f].value = 60 /\ readings[f].timestamp = Target.timestamp - 1
            /\ readings[l].value = 50 /\ readings[l].timestamp = Target.timestamp
    /\ decision.context.num = 1000
    /\ decision.context.den = 60

(* C12: a temperature event with severity HIGH and confidence >= 0.6 is decided
   as HEAT_STRESS with agent confidence MEDIUM; an event of another type, or a
   temperature event of severity MEDIUM or LOW, is never decided as HEAT_STRESS. *)
C12_HeatStress ==
    decision # NoDecision =>
        /\ ( /\ Target.anomaly_type \in {"HIGH_TEMPERATURE", "LOW_TEMPERATURE"}
             /\ Target.severity = "HIGH"
             /\ Target.model_confidence >= 60 )
                => (decision.template = "HEAT_STRESS" /\ decision.confidence = "MEDIUM")
        /\ decision.template = "HEAT_STRESS" =>
                /\ Target.anomaly_type \in {"HIGH_TEMPERATURE", "LOW_TEMPERATURE"}
                /\ Target.severity = "HIGH"

(* C12 witness: a HIGH temperature event with confidence 0.8 and no other
   anomaly in the table is decided as HEAT_STRESS, MEDIUM *)
C12_Witness ==
    /\ decision.template = "HEAT_STRESS"
    /\ decision.confidence = "MEDIUM"
    /\ Target.anomaly_type = "HIGH_TEMPERATURE"
    /\ Target.model_confidence = 80
    /\ Len(anomalies) = 1

(* Another row of anomaly_events counts as co-occurring: same plot, stamped in
   the half-open window [t-1h, t) *)
CoOccurring(i) ==
    /\ i # Len(anomalies)
    /\ anomalies[i].plot = Target.plot
    /\ anomalies[i].timestamp >= Target.timestamp - 1
    /\ anomalies[i].timestamp < Target.timestamp

(* C13: when rules 1-3 do not match, MULTI_ANOMALY (agent confidence HIGH) is
   selected exactly when some other event of the plot is stamped in [t-1h, t);
   events of another plot, older than an hour, or stamped at or after t do not
   count, nor does the event itself. *)
C13_MultiAnomalyWindow ==
    decision # NoDecision =>
        /\ ( /\ Target.model_confidence >= 60
             /\ decision.template # "IRRIGATION_CHECK"
             /\ ~HeatStressHolds )
                => (decision.template = "MULTI_ANOMALY"
                        <=> \E i \in DOMAIN anomalies : CoOccurring(i))
        /\ decision.template = "MULTI_ANOMALY" =>
                /\ decision.confidence = "HIGH"
                /\ \E i \in DOMAIN anomalies : CoOccurring(i)

(* C13 witness: the only other event of the plot carries the event's own
   timestamp, and the decision falls through to DEFAULT *)
C13_Witness ==
    /\ decision.template = "DEFAULT"
    /\ Target.model_confidence >= 60
    /\ Len(anomalies) = 2
    /\ anomalies[1].plot = Target.plot
    /\ anomalies[1].timestamp = Target.timestamp

(* Position of an anomaly type in ascending string order *)
LexicalRank(a) ==
    CASE a = "HIGH_HUMIDITY" -> 1
      [] a = "HIGH_MOISTURE" -> 2
      [] a = "HIGH_TEMPERATURE" -> 3
      [] a = "LOW_HUMIDITY" -> 4
      [] a = "LOW_MOISTURE" -> 5
      [] a = "LOW_TEMPERATURE" -> 6

(* The other rows of anomaly_events, and the table with those rows rearranged
   by p and row extra stored once more *)
Others == SubSeq(anomalies, 1, Len(anomalies) - 1)
Rearranged(p, extra) ==
    [i \in 1..Len(Others) |-> Others[p[i]]]
        \o (IF extra = 0 THEN <<>> ELSE <<Others[extra]>>)
        \o <<Target>>

(* C14: the factor list of a MULTI_ANOMALY decision holds each anomaly type at
   most once, in ascending lexical order; it holds the event's own type and
   the types of the co-occurring events and nothing else; and it is the same
   for every order and every multiplicity of the co-occurring events. *)
C14_FactorList ==
    decision.template = "MULTI_ANOMALY" =>
        LET f == decision.context.factors
        IN /\ \A i, j \in DOMAIN f : i < j => LexicalRank(f[i]) < LexicalRank(f[j])
           /\ \E i \in DOMAIN f : f[i] = Target.anomaly_type
           /\ {f[i] : i \in DOMAIN f} =
                {Target.anomaly_type}
                    \cup {anomalies[i].anomaly_type :
                            i \in {j \in DOMAIN anomalies : CoOccurring(j)}}
           /\ \A p \in Permutations(1..Len(Others)) :
                \A extra \in 0..Len(Others) :
                    rule_multi_anomaly(Target, Rearranged(p, extra)).context.factors = f

(* C14 witness: three co-occurring events, two of one type, stored in
   descending lexical order of type *)
C14_Witness ==
    /\ decision.template = "MULTI_ANOMALY"
    /\ Len(anomalies) = 4
    /\ \A i \in 1..3 : CoOccurring(i)
    /\ anomalies[1].anomaly_type = "LOW_TEMPERATURE"
    /\ anomalies[2].anomaly_type = "HIGH_MOISTURE"
    /\ anomalies[3].anomaly_type = "HIGH_MOISTURE"
    /\ Target.anomaly_type = "LOW_HUMIDITY"
    /\ decision.context.factors = <<"HIGH_MOISTURE", "LOW_HUMIDITY", "LOW_TEMPERATURE">>

(* C15: apply_rules returns a decision for every event and history, always one
   of the five, and when none of rules 1-4 matches it is the default one:
   template DEFAULT, agent confidence MEDIUM, action naming the event's
   anomaly type and plot. *)
C15_TotalWithDefault ==
    /\ apply_rules(Target, readings, anomalies) # {}
    /\ \A d \in apply_rules(Target, readings, anomalies) :
            d.template \in {"LOW_CONFIDENCE_MONITOR", "IRRIGATION_CHECK", "HEAT_STRESS",
                            "MULTI_ANOMALY", "DEFAULT"}
    /\ decision # NoDecision =>
            ( ( /\ ~LowConfidenceHolds
                /\ ~IrrigationMayHold
                /\ ~HeatStressHolds
                /\ ~OtherAnomalyHolds )
              => /\ decision.template = "DEFAULT"
                 /\ decision.confidence = "MEDIUM"
                 /\ decision.action.text = "Investigate on plot"
                 /\ decision.action.anomaly = get_anomaly_type_display(Target.anomaly_type)
                 /\ decision.action.plot = Target.plot )

(* C15 witness: a humidity event with confidence 0.6 and nothing in the
   trailing hour gets the default decision *)
C15_Witness ==
    /\ decision.template = "DEFAULT"
    /\ Target.anomaly_type = "HIGH_HUMIDITY"
    /\ Target.model_confidence = 60
    /\ Len(anomalies) = 1
    /\ decision.action.anomaly = "High Humidity"
    /\ decision.action.plot = 1

----------------------------------------------------------------------------
(* C16: when the oracle throws during an observation, the observation yields
   is_anomaly = false and no AnomalyEvent, and the rolling context of every
   key is exactly what it was before the call. *)
C16_OracleFailureLeavesState ==
    [][ ( /\ Len(log') = Len(log) + 1
          /\ log'[Len(log')].predicted
          /\ log'[Len(log')].outcome.raised )
        => /\ ~log'[Len(log')].is_anomaly
           /\ log'[Len(log')].event = 0
           /\ anomalies' = anomalies
           /\ plot_contexts' = plot_contexts ]_vars

(* C17: when a history lookup of the rule engine fails during a call of
   generate_recommendation, the call does not fail: its decision is the
   DEFAULT one and a recommendation exists for the event once it has ended. *)
C17_HistoryFailureFallsBack ==
    \A t \in Triggers :
        (pc[t] = "done" /\ local[t].unavailable) =>
            /\ ~local[t].raised
            /\ local[t].decision.template = "DEFAULT"
            /\ matching(recommendations, 1) # {}

----------------------------------------------------------------------------
(* C18: a non-finite reading value is rejected at the boundary of the rolling
   buffer: no buffer ever holds one. *)
C18_NonFiniteRejected ==
    \A k \in DOMAIN plot_contexts :
        \A i \in DOMAIN plot_contexts[k] : plot_contexts[k][i] # NonFinite

(* The values passed to predict for key k so far, oldest first *)
KeyValues(k) ==
    LET calls == SelectSeq(log, LAMBDA c : c.predicted /\ <<c.plot, c.sensor_type>> = k)
    IN [i \in DOMAIN calls |-> calls[i].value]

(* The last n elements of a sequence *)
LastOf(values, n) ==
    IF Len(values) <= n THEN values
    ELSE SubSeq(values, Len(values) - n + 1, Len(values))

(* C19: predict for one key changes only that key's rolling buffer: at any
   time the buffer of a key holds the latest values passed for that key and
   nothing that was passed for another plot or another sensor. *)
C19_BuffersPerKey ==
    \A k \in DOMAIN plot_contexts :
        plot_contexts[k] = LastOf(KeyValues(k), FeatureWindow)

(* C19 witness: readings for a key, for the same sensor on another plot and
   for another sensor on the same plot leave three different buffers *)
C19_Witness ==
    /\ Len(log) = 3
    /\ plot_contexts[<<1, "MOISTURE">>] = <<31>>
    /\ plot_contexts[<<2, "MOISTURE">>] = <<45>>
    /\ plot_contexts[<<1, "TEMPERATURE">>] = <<45>>
    /\ plot_contexts[<<2, "TEMPERATURE">>] = <<>>

----------------------------------------------------------------------------
(* C20: the hook's callback runs only for an AnomalyEvent row created by the
   save, and only once that row is committed: never while the creating
   transaction is open, never for a creation that was rolled back, never for
   a save of an existing row; so every recommendation it made belongs to a
   committed row. *)
C20_HookAfterCommit ==
    /\ \A i \in DOMAIN log :
            /\ log[i].created
            /\ log[i].committed
            /\ log[i].serial \notin local.rolled_back
            /\ log[i].serial \notin local.pending
    /\ \A i, j \in DOMAIN log : i # j => log[i].serial # log[j].serial
    /\ local.in_atomic =>
            Len(recommendations) = Len(local.saved_recommendations)

(* C20 witness: one creation was rolled back, one was committed inside an
   atomic block and got its recommendation from the hook after the commit,
   and the committed row was saved again without another run of the hook *)
C20_Witness ==
    /\ ~local.in_atomic
    /\ local.rolled_back = {1}
    /\ Len(anomalies) = 1
    /\ local.resaved = {1}
    /\ Len(log) = 1
    /\ log[1].serial = 2
    /\ Cardinality(matching(recommendations, 1)) = 1

----------------------------------------------------------------------------
(* C21: after any sequence of observations for a key, its rolling buffer
   holds the most recently observed values in arrival order, up to
   3 x window_size of them: values are dropped, oldest first, only when that
   cap is exceeded. *)
C21_BufferKeepsThreeWindows ==
    \A k \in DOMAIN plot_contexts :
        plot_contexts[k] = LastOf(KeyValues(k), 3 * FeatureWindow)

(***************************************************************************)
(* Feature engineering of one key, for every window size.                  *)
(* local.window is the detector's self.window, local.values the readings   *)
(* of the key so far, local.X the vector of the newest reading;            *)
(* plot_contexts holds the key's rolling context.                          *)
(***************************************************************************)
MaxWindow == 3
MaxSeries == 4
FeatureValues == {10, 20, 40}
FeatureKey == <<1, "MOISTURE">>
NoFeatures == [value |-> 0, roll_mean |-> Fraction(0, 1), roll_std_sq |-> Fraction(0, 1),
               diff |-> 0, derivative |-> Fraction(0, 1)]

(* engineer_features of the training script: the row of point i of the
   series.  rolling(W, min_periods=1) covers the last min(i, W) rows; std()
   is the sample deviation (ddof = 1), NaN for one row and then filled with
   0; diff() is NaN at the first row and filled with 0 before derivative
   takes its rolling mean. *)
engineer_features(values, i, window) ==
    LET rows == LastOf(SubSeq(values, 1, i), window)
        diffs == [j \in 1..i |-> IF j = 1 THEN 0 ELSE values[j] - values[j - 1]]
        last_diffs == LastOf(diffs, window)
    IN [value |-> values[i],
        roll_mean |-> Fraction(SumSeq(rows), Len(rows)),
        roll_std_sq |-> IF Len(rows) > 1
                        THEN Fraction(Spread(rows), Len(rows) * (Len(rows) - 1))
                        ELSE Fraction(0, 1),
        diff |-> diffs[i],
        derivative |-> Fraction(SumSeq(last_diffs), Len(last_diffs))]

InitFeatures ==
    /\ now = 0
    /\ artifacts = SensorTypes
    /\ plot_contexts = [k \in {FeatureKey} |-> <<>>]
    /\ readings = <<>>
    /\ anomalies = <<>>
    /\ recommendations = <<>>
    /\ log = <<>>
    /\ pc = "features"
    /\ \E window \in 1..MaxWindow :
           local = [window |-> window, values |-> <<>>, X |-> NoFeatures]
    /\ decision = NoDecision

(* One call of _engineer_features(plot_id, sensor_type, value) *)
_engineer_features(value) ==
    /\ pc = "features"
    /\ Len(local.values) < MaxSeries
    /\ LET context == append_and_trim(plot_contexts[FeatureKey], value, local.window)
       IN /\ plot_contexts' = [plot_contexts EXCEPT ![FeatureKey] = context]
          /\ local' = [local EXCEPT
                           !.values = Append(@, value),
                           !.X = engineer_features_vector(context, value,
                                                          plot_contexts[FeatureKey])]
    /\ UNCHANGED <<now, artifacts, readings, anomalies, recommendations, log, pc, decision>>

NextFeatures == \E value \in FeatureValues : _engineer_features(value)

SpecFeatures == InitFeatures /\ [][NextFeatures]_vars

(* C22: for every window size and every reading of a key, roll_mean is the
   mean of the last min(n, window_size) values of the key and diff is the
   reading minus the previous reading of the key, 0 only for the key's first
   reading; roll_std and derivative are 0 while the window holds fewer than
   two points *)
C22_MeanAndDiffOfRecentValues ==
    LET n == Len(local.values)
        recent == LastOf(local.values, Min(n, local.window))
    IN (pc = "features" /\ n > 0) =>
          /\ SameFraction(local.X.roll_mean, Fraction(SumSeq(recent), Len(recent)))
          /\ local.X.diff = IF n > 1 THEN local.values[n] - local.values[n - 1] ELSE 0
          /\ Len(plot_contexts[FeatureKey]) < 2 =>
                 local.X.roll_std_sq.num = 0 /\ local.X.derivative.num = 0

(* C26: at every position of a key's series the vector the online detector
   computes equals the row the training script's engineer_features computes
   for that position with the same window size *)
C26_OnlineEqualsTraining ==
    LET n == Len(local.values)
        row == IF n > 0 THEN engineer_features(local.values, n, local.window) ELSE NoFeatures
    IN (pc = "features" /\ n > 0) =>
          /\ local.X.value = row.value
          /\ SameFraction(local.X.roll_mean, row.roll_mean)
          /\ SameFraction(local.X.roll_std_sq, row.roll_std_sq)
          /\ local.X.diff = row.diff
          /\ SameFraction(local.X.derivative, row.derivative)

(***************************************************************************)
(* Two ingest requests served by two threads of one process, both calling  *)
(* get_detector(sensor_type) and detector.predict for the same key.  The   *)
(* code takes no lock, so the threads interleave between any two of their  *)
(* statements.  local.detectors is the entry of _detectors for the sensor  *)
(* type (0: absent, else the instance), plot_contexts[d] the key's context *)
(* in instance d, local.prior the key's context before the two calls,      *)
(* local.calls[t] the locals of thread t and pc[t] its position.           *)
(***************************************************************************)
Threads == {1, 2}
MaxInstances == 3
ConcurrentValues == {10, 20, 40}
PriorValues == {10, 20}
PriorContexts ==
    UNION {[1..n -> PriorValues] : n \in 0..FeatureWindow}

InitConcurrent ==
    /\ now = 0
    /\ artifacts = SensorTypes
    /\ readings = <<>>
    /\ anomalies = <<>>
    /\ recommendations = <<>>
    /\ log = <<>>
    /\ decision = NoDecision
    /\ pc = [t \in Threads |-> "get_detector"]
    /\ \E prior \in PriorContexts, loaded \in BOOLEAN :
       \E values \in [Threads -> ConcurrentValues] :
           /\ (prior # <<>>) => loaded
           /\ plot_contexts = [d \in 1..MaxInstances |-> IF d = 1 THEN prior ELSE <<>>]
           /\ local = [detectors |-> IF loaded THEN 1 ELSE 0,
                       created |-> IF loaded THEN 1 ELSE 0,
                       prior |-> prior,
                       calls |-> [t \in Threads |->
                                    [value |-> values[t], detector |-> 0,
                                     arr |-> <<>>, X |-> NoFeatures]]]

(* get_detector, line 168: if sensor_type not in _detectors *)
get_detector_check(t) ==
    /\ pc[t] = "get_detector"
    /\ pc' = [pc EXCEPT ![t] = IF local.detectors = 0 THEN "load" ELSE "return"]
    /\ UNCHANGED <<now, artifacts, plot_contexts, readings, anomalies, recommendations,
                   log, local, decision>>

(* get_detector, line 185: _detectors[sensor_type] = MLAnomalyDetector(model_path),
   a new instance with empty plot_contexts *)
get_detector_load(t) ==
    /\ pc[t] = "load"
    /\ local.created < MaxInstances
    /\ local' = [local EXCEPT !.created = @ + 1, !.detectors = local.created + 1]
    /\ pc' = [pc EXCEPT ![t] = "return"]
    /\ UNCHANGED <<now, artifacts, plot_contexts, readings, anomalies, recommendations,
                   log, decision>>

(* get_detector, line 190, and predict, line 89: the instance now in
   _detectors, and its context for the key *)
get_detector_return(t) ==
    /\ pc[t] = "return"
    /\ local' = [local EXCEPT !.calls[t].detector = local.detectors]
    /\ pc' = [pc EXCEPT ![t] = "append"]
    /\ UNCHANGED <<now, artifacts, plot_contexts, readings, anomalies, recommendations,
                   log, decision>>

(* _engineer_features, line 48: context.append(value) *)
context_append(t) ==
    /\ pc[t] = "append"
    /\ plot_contexts' = [plot_contexts EXCEPT
                             ![local.calls[t].detector] = Append(@, local.calls[t].value)]
    /\ pc' = [pc EXCEPT ![t] = "check"]
    /\ UNCHANGED <<now, artifacts, readings, anomalies, recommendations, log, local,
                   decision>>

(* _engineer_features, line 51: if len(context) > self.window *)
context_check(t) ==
    /\ pc[t] = "check"
    /\ pc' = [pc EXCEPT ![t] =
                 IF Len(plot_contexts[local.calls[t].detector]) > FeatureWindow
                 THEN "pop" ELSE "array"]
    /\ UNCHANGED <<now, artifacts, plot_contexts, readings, anomalies, recommendations,
                   log, local, decision>>

(* _engineer_features, line 52: context.pop(0) *)
context_pop(t) ==
    /\ pc[t] = "pop"
    /\ plot_contexts' = [plot_contexts EXCEPT ![local.calls[t].detector] = Tail(@)]
    /\ pc' = [pc EXCEPT ![t] = "array"]
    /\ UNCHANGED <<now, artifacts, readings, anomalies, recommendations, log, local,
                   decision>>

(* _engineer_features, lines 58-62: arr = np.array(context), roll_mean, roll_std *)
features_array(t) ==
    /\ pc[t] = "array"
    /\ LET arr == plot_contexts[local.calls[t].detector]
       IN local' = [local EXCEPT
                       !.calls[t].arr = arr,
                       !.calls[t].X.value = local.calls[t].value,
                       !.calls[t].X.roll_mean = Fraction(SumSeq(arr), Len(arr)),
                       !.calls[t].X.roll_std_sq =
                           IF Len(arr) > 1 THEN Fraction(Spread(arr), Len(arr) * Len(arr))
                           ELSE Fraction(0, 1)]
    /\ pc' = [pc EXCEPT ![t] = "diff"]
    /\ UNCHANGED <<now, artifacts, plot_contexts, readings, anomalies, recommendations,
                   log, decision>>

(* _engineer_features, lines 65-68: diff, read from the shared list *)
features_diff(t) ==
    /\ pc[t] = "diff"
    /\ LET context == plot_contexts[local.calls[t].detector]
       IN local' = [local EXCEPT !.calls[t].X.diff =
                       IF Len(context) > 1
                       THEN local.calls[t].value - context[Len(context) - 1] ELSE 0]
    /\ pc' = [pc EXCEPT ![t] = "derivative"]
    /\ UNCHANGED <<now, artifacts, plot_contexts, readings, anomalies, recommendations,
                   log, decision>>

(* _engineer_features, lines 72-81: derivative from arr, guarded by the length
   of the shared list *)
features_derivative(t) ==
    /\ pc[t] = "derivative"
    /\ LET context == plot_contexts[local.calls[t].detector]
           arr == local.calls[t].arr
       IN local' = [local EXCEPT !.calls[t].X.derivative =
                       IF Len(context) > 1 /\ Len(arr) > 1
                       THEN Fraction(SumSeq(np_diff(arr)), Len(arr) - 1)
                       ELSE Fraction(0, 1)]
    /\ pc' = [pc EXCEPT ![t] = "done"]
    /\ UNCHANGED <<now, artifacts, plot_contexts, readings, anomalies, recommendations,
                   log, decision>>

NextConcurrent ==
    \E t \in Threads :
        \/ get_detector_check(t)
        \/ get_detector_load(t)
        \/ get_detector_return(t)
        \/ context_append(t)
        \/ context_check(t)
        \/ context_pop(t)
        \/ features_array(t)
        \/ features_diff(t)
        \/ features_derivative(t)

SpecConcurrent == InitConcurrent /\ [][NextConcurrent]_vars

SameVector(a, b) ==
    /\ a.value = b.value
    /\ SameFraction(a.roll_mean, b.roll_mean)
    /\ SameFraction(a.roll_std_sq, b.roll_std_sq)
    /\ a.diff = b.diff
    /\ SameFraction(a.derivative, b.derivative)

(* The two calls run one after the other, first then second: the context and
   the vector of each *)
OneAfterTheOther(first, second) ==
    LET c1 == append_and_trim(local.prior, local.calls[first].value, FeatureWindow)
        c2 == append_and_trim(c1, local.calls[second].value, FeatureWindow)
    IN [context |-> c2,
        X |-> [t \in Threads |->
                 IF t = first
                 THEN engineer_features_vector(c1, local.calls[first].value, local.prior)
                 ELSE engineer_features_vector(c2, local.calls[second].value, c1)]]

BothDone == \A t \in Threads : pc[t] = "done"

(* C23: two predict calls for one key that are in flight together leave the
   buffer and return the results of one of the two sequential orders, and
   the buffer is within its bound whenever no call is between its append and
   its trim *)
C23_ConcurrentCallsSerialized ==
    /\ BothDone =>
          \E first \in Threads :
              LET second == CHOOSE t \in Threads : t # first
                  run == OneAfterTheOther(first, second)
              IN /\ plot_contexts[local.detectors] = run.context
                 /\ \A t \in Threads : SameVector(local.calls[t].X, run.X[t])
    /\ (\A t \in Threads : pc[t] \notin {"check", "pop"}) =>
          \A d \in 1..MaxInstances : Len(plot_contexts[d]) <= FeatureWindow

(* The detector confidence of the request that created event id: the score
   predict returned, |decision_function| *)
ConfidenceOf(id) ==
    LET i == CHOOSE j \in DOMAIN log : log[j].event = id
    IN Abs(log[i].outcome.score)

(* C24: the severity of every event the ingest path creates follows the
   detector confidence by the cut points 0.65 and 0.80; a HIGH event has a
   stored confidence of at least 0.80 and no stored confidence exceeds 1 *)
C24_SeverityCutPoints ==
    \A i \in DOMAIN log :
        log[i].event # 0 =>
            LET e == anomalies[log[i].event]
                confidence == ConfidenceOf(log[i].event)
            IN /\ (e.severity = "LOW") <=> (confidence < 65)
               /\ (e.severity = "MEDIUM") <=> (65 <= confidence /\ confidence < 80)
               /\ (e.severity = "HIGH") <=> (confidence >= 80)
               /\ (e.severity = "HIGH") => (e.model_confidence >= 80)
               /\ e.model_confidence <= 100

C24_Witness ==
    /\ \E i \in DOMAIN log :
          /\ log[i].event # 0
          /\ ConfidenceOf(log[i].event) = 65
          /\ anomalies[log[i].event].severity = "MEDIUM"
    /\ \E i \in DOMAIN log :
          /\ log[i].event # 0
          /\ ConfidenceOf(log[i].event) > 100
          /\ anomalies[log[i].event].severity = "HIGH"
          /\ anomalies[log[i].event].model_confidence = 100

(***************************************************************************)
(* train_model of the training script, from the scores of the training set *)
(* to the thresholds it saves.  local.cfg is the sensor's entry of         *)
(* SENSOR_CFG with the quantiles in percent, local.raw_train the           *)
(* decision_function values of the training set and local.saved the saved  *)
(* bundle, its thresholds in hundredths of a score unit.                   *)
(***************************************************************************)
TrainSamples == 3
TrainScores == {-10, 0, 10}
QuantilePercents == {0, 2, 4, 5, 10, 25}
stop_q_cap == 20
stop_q_factor == 3
NotSaved == [start_q |-> 0, stop_q |-> 0, raw_start |-> 0, raw_stop |-> 0]

SortedSeq(a) ==
    CHOOSE s \in [1..Len(a) -> {a[i] : i \in DOMAIN a}] :
        /\ \A i \in 1..Len(a) - 1 : s[i] <= s[i + 1]
        /\ \E p \in Permutations(DOMAIN a) : \A i \in DOMAIN a : s[i] = a[p[i]]

(* np.quantile(a, q) with the default linear interpolation, q in percent:
   the point at position q (n - 1) of the sorted sample, times 100 *)
np_quantile(a, q) ==
    LET s == SortedSeq(a)
        h == q * (Len(a) - 1)
        lo == (h \div 100) + 1
        r == h % 100
    IN IF r = 0 THEN 100 * s[lo]
       ELSE 100 * s[lo] + r * (s[lo + 1] - s[lo])

InitTrain ==
    /\ now = 0
    /\ artifacts = {}
    /\ plot_contexts = <<>>
    /\ readings = <<>>
    /\ anomalies = <<>>
    /\ recommendations = <<>>
    /\ log = <<>>
    /\ pc = "train_model"
    /\ \E start_q \in QuantilePercents, stop_q \in QuantilePercents :
       \E raw_train \in [1..TrainSamples -> TrainScores] :
           local = [cfg |-> [start_q |-> start_q, stop_q |-> stop_q],
                    raw_train |-> raw_train, saved |-> NotSaved]
    /\ decision = NoDecision

(* train_model, lines 118-150 *)
train_model ==
    /\ pc = "train_model"
    /\ LET start_q == local.cfg.start_q
           stop_q == IF local.cfg.stop_q <= start_q
                     THEN Min(stop_q_cap, start_q * stop_q_factor)
                     ELSE local.cfg.stop_q
       IN local' = [local EXCEPT !.saved =
                       [start_q |-> start_q, stop_q |-> stop_q,
                        raw_start |-> np_quantile(local.raw_train, start_q),
                        raw_stop |-> np_quantile(local.raw_train, stop_q)]]
    /\ pc' = "saved"
    /\ artifacts' = SensorTypes
    /\ UNCHANGED <<now, plot_contexts, readings, anomalies, recommendations, log, decision>>

NextTrain == train_model

SpecTrain == InitTrain /\ [][NextTrain]_vars

(* C25: whatever pair of quantiles is configured, the quantile used for
   raw_stop is strictly greater than the one used for raw_start and the saved
   thresholds satisfy raw_start <= raw_stop *)
C25_StopQuantileAboveStart ==
    pc = "saved" =>
        /\ local.saved.stop_q > local.saved.start_q
        /\ local.saved.raw_start <= local.saved.raw_stop

(* C27: generate_explanation succeeds on every decision apply_rules returns:
   the template is one of the five defined ones and each of its placeholders
   is among the keys the decision supplies *)
C27_ExplanationNeverRaises ==
    decision # NoDecision =>
        /\ decision.template \in TemplateNames
        /\ EXPLANATION_TEMPLATES(decision.template) \subseteq explanation_context(decision)
        /\ ~explanation_raises(decision)

C27_Witness ==
    /\ decision # NoDecision
    /\ decision.template = "HEAT_STRESS"
    /\ "temp_delta" \in EXPLANATION_TEMPLATES(decision.template)
    /\ "temp_delta" \in explanation_context(decision)

HighVariant(sensor_type) ==
    CASE sensor_type = "TEMPERATURE" -> "HIGH_TEMPERATURE"
      [] sensor_type = "HUMIDITY" -> "HIGH_HUMIDITY"
      [] sensor_type = "MOISTURE" -> "HIGH_MOISTURE"

LowVariant(sensor_type) ==
    CASE sensor_type = "TEMPERATURE" -> "LOW_TEMPERATURE"
      [] sensor_type = "HUMIDITY" -> "LOW_HUMIDITY"
      [] sensor_type = "MOISTURE" -> "LOW_MOISTURE"

(* C28: the anomaly type of every event the ingest path creates is the HIGH_
   variant of the reading's sensor exactly when the value is above
   max + margin, the LOW_ variant exactly when it is below min - margin, and
   the rule engine derives the reading's sensor type back from it *)
C28_TypeAgreesWithReading ==
    \A i \in DOMAIN log :
        log[i].event # 0 =>
            LET e == anomalies[log[i].event]
                r == normal_ranges(log[i].sensor_type)
                margin == magnitude_thresholds(log[i].sensor_type)
            IN /\ (e.anomaly_type = HighVariant(log[i].sensor_type))
                      <=> (log[i].value > r[2] + margin)
               /\ (e.anomaly_type = LowVariant(log[i].sensor_type))
                      <=> (log[i].value < r[1] - margin)
               /\ derive_sensor_type_from_anomaly(e.anomaly_type) = log[i].sensor_type

C28_Witness ==
    /\ \E i \in DOMAIN log :
          /\ log[i].event # 0
          /\ log[i].value > normal_ranges(log[i].sensor_type)[2]
          /\ anomalies[log[i].event].anomaly_type = HighVariant(log[i].sensor_type)
    /\ \E i \in DOMAIN log :
          /\ log[i].event # 0
          /\ log[i].value < normal_ranges(log[i].sensor_type)[1]
          /\ anomalies[log[i].event].anomaly_type = LowVariant(log[i].sensor_type)

(***************************************************************************)
(* simulator/anomaly_engine.py: AnomalyEngine, its three methods called in *)
(* any order.  local.active is self.active, a dictionary from plot ids to  *)
(* [type, duration, params]; local.started[p] is the duration drawn when   *)
(* the latest anomaly of plot p was triggered (0: none yet) and            *)
(* local.calls[p] the number of end_step(p) calls that found it active.    *)
(***************************************************************************)
(* Two of config.PLOT_IDS and three of config.ENABLED_ANOMALIES: one anomaly
   of a single sensor each for temperature and moisture, one of all sensors *)
EnginePlots == {1, 2}
EngineSensors == {"temperature", "moisture"}
EngineAnomalies == {"HIGH_TEMPERATURE", "LOW_MOISTURE", "SENSOR_FREEZE"}
duration_min == 3
duration_max == 8
(* Durations tried among those random.randint(3, 8) can draw *)
EngineDurations == {duration_min, duration_min + 1, duration_max}
EngineValues == {20, 30}
(* The ends of np.random.uniform(5, 10) for temperature and of
   np.random.uniform(10, 20) for moisture *)
Amplitudes(sensor_type) == IF sensor_type = "temperature" THEN {5, 10} ELSE {10, 20}
NoParams == [s \in {} |-> 0]
NotActive == [p \in {} |-> 0]

(* dict[key] = entry *)
Put(dict, key, entry) ==
    [k \in DOMAIN dict \cup {key} |-> IF k = key THEN entry ELSE dict[k]]

(* del dict[key] *)
Del(dict, key) == [k \in DOMAIN dict \ {key} |-> dict[k]]

(* maybe_trigger: the entries self.active may hold afterwards.  trigger says
   whether random.random() < config.ANOMALY_CHANCE; anomaly and duration are
   the two random draws. *)
maybe_trigger_active(active, plot_id, trigger, anomaly, duration) ==
    IF plot_id \in DOMAIN active THEN active
    ELSE IF trigger
         THEN Put(active, plot_id, [type |-> anomaly, duration |-> duration,
                                    params |-> NoParams])
         ELSE active

(* Does the branch of apply that is taken change the value of this sensor? *)
affects(anomaly_type, sensor_type) ==
    \/ anomaly_type = "HIGH_TEMPERATURE" /\ sensor_type = "temperature"
    \/ anomaly_type = "LOW_MOISTURE" /\ sensor_type = "moisture"
    \/ anomaly_type = "SENSOR_FREEZE"

(* apply: the returned value and self.active afterwards; amplitude is the
   random draw of the amplitude-tuned branches *)
apply(active, plot_id, sensor_type, value, amplitude) ==
    IF plot_id \notin DOMAIN active
    THEN [value |-> value, active |-> active, applied |-> FALSE]
    ELSE LET anomaly == active[plot_id]
             params == anomaly.params
         IN CASE anomaly.type = "HIGH_TEMPERATURE" /\ sensor_type = "temperature" ->
                    [value |-> value + amplitude, active |-> active, applied |-> TRUE]
              [] anomaly.type = "LOW_MOISTURE" /\ sensor_type = "moisture" ->
                    [value |-> value - amplitude, active |-> active, applied |-> TRUE]
              [] anomaly.type = "SENSOR_FREEZE" ->
                    LET frozen == IF sensor_type \in DOMAIN params THEN params
                                  ELSE Put(params, sensor_type, value)
                    IN [value |-> frozen[sensor_type],
                        active |-> Put(active, plot_id,
                                       [anomaly EXCEPT !.params = frozen]),
                        applied |-> TRUE]
              [] OTHER -> [value |-> value, active |-> active, applied |-> FALSE]

(* Mutant: the entry is deleted one call too late *)
end_step_active_late(active, plot_id) ==
    IF plot_id \notin DOMAIN active THEN active
    ELSE IF active[plot_id].duration - 1 < 0
         THEN Del(active, plot_id)
         ELSE Put(active, plot_id, [active[plot_id] EXCEPT !.duration = @ - 1])

(* end_step: self.active afterwards *)
end_step_active(active, plot_id) ==
    IF plot_id \notin DOMAIN active THEN active
    ELSE IF active[plot_id].duration - 1 <= 0
         THEN Del(active, plot_id)
         ELSE Put(active, plot_id, [active[plot_id] EXCEPT !.duration = @ - 1])

InitEngine ==
    /\ now = 0
    /\ artifacts = {}
    /\ plot_contexts = <<>>
    /\ readings = <<>>
    /\ anomalies = <<>>
    /\ recommendations = <<>>
    /\ log = <<>>
    /\ pc = "engine"
    /\ local = [active |-> NotActive,
                started |-> [p \in EnginePlots |-> 0],
                calls |-> [p \in EnginePlots |-> 0]]
    /\ decision = NoDecision

EngineUnchanged ==
    UNCHANGED <<now, artifacts, plot_contexts, readings, anomalies, recommendations, log,
                pc, decision>>

maybe_trigger(plot_id) ==
    /\ pc = "engine"
    /\ \E trigger \in BOOLEAN, anomaly \in EngineAnomalies,
          duration \in EngineDurations :
          LET active == maybe_trigger_active(local.active, plot_id, trigger, anomaly,
                                             duration)
              starts == plot_id \notin DOMAIN local.active /\ plot_id \in DOMAIN active
          IN local' = [local EXCEPT
                          !.active = active,
                          !.started[plot_id] = IF starts THEN duration ELSE @,
                          !.calls[plot_id] = IF starts THEN 0 ELSE @]
    /\ EngineUnchanged

engine_apply(plot_id, sensor_type) ==
    /\ pc = "engine"
    /\ \E value \in EngineValues, amplitude \in Amplitudes(sensor_type) :
          local' = [local EXCEPT
                       !.active = apply(local.active, plot_id, sensor_type, value,
                                        amplitude).active]
    /\ EngineUnchanged

end_step(plot_id) ==
    /\ pc = "engine"
    /\ local' = [local EXCEPT
                     !.active = end_step_active(local.active, plot_id),
                     !.calls[plot_id] = IF plot_id \in DOMAIN local.active
                                        THEN @ + 1 ELSE @]
    /\ EngineUnchanged

NextEngine ==
    \E plot_id \in EnginePlots :
        \/ maybe_trigger(plot_id)
        \/ \E sensor_type \in EngineSensors : engine_apply(plot_id, sensor_type)
        \/ end_step(plot_id)

SpecEngine == InitEngine /\ [][NextEngine]_vars

(* run_simulator calls end_step(plot) for every plot in every step of its
   loop, so while the simulation runs no plot's end_step is postponed
   forever *)
FairSpecEngine ==
    SpecEngine /\ \A plot_id \in EnginePlots : WF_vars(end_step(plot_id))

(* An anomaly is active on the plot with exactly the end_step calls still to
   come that its drawn duration leaves; once it is gone it has had as many
   calls as its duration *)
RunsItsDuration(plot_id) ==
    IF plot_id \in DOMAIN local.active
    THEN /\ local.active[plot_id].duration = local.started[plot_id] - local.calls[plot_id]
         /\ local.active[plot_id].duration >= 1
         /\ local.started[plot_id] \in duration_min..duration_max
    ELSE local.calls[plot_id] = local.started[plot_id]

(* maybe_trigger on a plot with an active anomaly leaves self.active as it is *)
TriggerKeepsActive(plot_id) ==
    (plot_id \in DOMAIN local.active /\ maybe_trigger(plot_id))
        => local'.active = local.active

(* C29: a plot has at most one active anomaly; maybe_trigger on a plot whose
   anomaly is active changes nothing; an anomaly of duration d is removed by
   the d-th end_step of its plot and not before, so under the simulator's
   regular end_step calls every started anomaly ends *)
C29_AnomalyRunsItsDuration ==
    /\ [](\A plot_id \in EnginePlots : RunsItsDuration(plot_id))
    /\ [][\A plot_id \in EnginePlots : TriggerKeepsActive(plot_id)]_vars
    /\ \A plot_id \in EnginePlots :
          (plot_id \in DOMAIN local.active) ~> (plot_id \notin DOMAIN local.active)

C29_Witness ==
    /\ pc = "engine"
    /\ 1 \notin DOMAIN local.active
    /\ local.started[1] = duration_max
    /\ local.calls[1] = duration_max
    /\ 2 \in DOMAIN local.active
    /\ local.active[2].duration < local.started[2]

(***************************************************************************)
(* simulator/simulator.py: the loop of run_simulator.  now counts the      *)
(* completed time steps, local.plot is the plot the inner loop treats      *)
(* next, local.active the engine's dictionary and log the ground_truth     *)
(* list; the field applied of a row records whether apply took a branch    *)
(* that changes the sensor's value when it produced the row's value.       *)
(***************************************************************************)
MaxSteps == 4

base_value(sensor_type) == IF sensor_type = "temperature" THEN 20 ELSE 50
amplitude_drawn(sensor_type) == IF sensor_type = "temperature" THEN 5 ELSE 10

(* Lines 240-242: the anomaly types counted as anomalous for each sensor *)
is_anom(anomaly_type, sensor_type) ==
    IF sensor_type = "TEMPERATURE"
    THEN anomaly_type \in {"HIGH_TEMPERATURE", "LOW_TEMPERATURE", "SENSOR_FREEZE",
                           "NOISE_INJECTION", "SENSOR_DRIFT"}
    ELSE anomaly_type \in {"HIGH_MOISTURE", "LOW_MOISTURE", "SENSOR_FREEZE",
                           "NOISE_INJECTION", "SENSOR_DRIFT"}

ground_truth_row(step, plot, sensor_type, applied, anomaly_type) ==
    [timestamp |-> step, plot |-> plot, sensor_type |-> sensor_type,
     value |-> applied.value,
     is_anomaly |-> IF is_anom(anomaly_type, sensor_type) THEN 1 ELSE 0,
     anomaly_type |-> IF is_anom(anomaly_type, sensor_type) THEN anomaly_type ELSE "NONE",
     applied |-> applied.applied]

InitSimulator ==
    /\ now = 0
    /\ artifacts = {}
    /\ plot_contexts = <<>>
    /\ readings = <<>>
    /\ anomalies = <<>>
    /\ recommendations = <<>>
    /\ log = <<>>
    /\ pc = "simulator"
    /\ local = [active |-> NotActive, plot |-> 1]
    /\ decision = NoDecision

(* One pass of the body of "for plot in config.PLOT_IDS", lines 190-268, and
   the step's end, line 270, after the last plot *)
simulate_plot ==
    /\ pc = "simulator"
    /\ now < MaxSteps
    /\ \E trigger \in BOOLEAN, anomaly \in EngineAnomalies, duration \in EngineDurations :
          LET plot == local.plot
              triggered == maybe_trigger_active(local.active, plot, trigger, anomaly,
                                                duration)
              temp == apply(triggered, plot, "temperature", base_value("temperature"),
                            amplitude_drawn("temperature"))
              moisture == apply(temp.active, plot, "moisture", base_value("moisture"),
                                amplitude_drawn("moisture"))
              ended == end_step_active(moisture.active, plot)
              anomaly_type == IF plot \in DOMAIN ended THEN ended[plot].type ELSE "NONE"
              last == (plot + 1) \notin EnginePlots
          IN /\ log' = log \o
                    <<ground_truth_row(now, plot, "TEMPERATURE", temp, anomaly_type),
                      ground_truth_row(now, plot, "MOISTURE", moisture, anomaly_type)>>
             /\ local' = [active |-> ended, plot |-> IF last THEN 1 ELSE plot + 1]
             /\ now' = IF last THEN now + 1 ELSE now
    /\ UNCHANGED <<artifacts, plot_contexts, readings, anomalies, recommendations, pc,
                   decision>>

NextSimulator == simulate_plot

SpecSimulator == InitSimulator /\ [][NextSimulator]_vars

(* C30: a ground-truth row has is_anomaly = 1 exactly when an active anomaly
   affecting its sensor was applied to its value in the same step, the
   anomaly's last step included *)
C30_GroundTruthMatchesApplied ==
    pc = "simulator" =>
        \A i \in DOMAIN log : (log[i].is_anomaly = 1) <=> log[i].applied
====
